---- MODULE Spec2Model ----
(***************************************************************************)
(* A model of simalign.py: the iterative matcher iter_max, the entropy     *)
(* scoring gather_null_aligns / apply_percentile_null_aligns, and the      *)
(* two-phase command-line run of the __main__ block.                       *)
(*                                                                         *)
(* A matrix is a sequence of rows, each a sequence of naturals.  A         *)
(* similarity entry v stands for the similarity v / MaxVal: argmax, the    *)
(* L1 normalisation and the damping are invariant under that scaling.      *)
(* Entropies are kept as integers in thousandths (0 .. 1000), NaN as -1.   *)
(***************************************************************************)
EXTENDS Integers, Sequences, FiniteSets, TLC

VARIABLES
    \* ---- one call of iter_max (lines 97-128)
    sim_matrix,     \* the parameter sim_matrix
    sim,            \* the module-level name `sim` at the time of the call
    max_count,      \* the parameter max_count
    inter,          \* local inter (the accumulator)
    new_inter,      \* local new_inter
    new_sim,        \* local new_sim of the last round, <<>> before any round
    count,          \* local count
    ipc,            \* position in iter_max: "call", "loop", "break", "ret"
    result,         \* the returned matrix, <<>> before the return
    \* ---- one call of gather_null_aligns (lines 64-78)
    inter_matrix,   \* the parameter inter_matrix
    all_ents,       \* the returned list, <<>> before the return
    gpc,            \* "call", "ret"
    \* ---- one run of the __main__ block (lines 133-332)
    L1_lines,         \* number of lines of the file args.L1
    L2_lines,         \* number of lines of the file args.L2
    num_test_sents,   \* args.num_test_sents
    null_align,       \* args.null_align, in tenths
    matching_methods, \* the list matching_methods of line 201
    sims,             \* sims[i]: the distorted similarity matrix of the i-th pair
    original_corpora, \* the lengths of the two loaded corpora
    words_tokens,     \* len(words_tokens)
    sentences,        \* len(sentences)
    sent_id,          \* index of the running loop (0-based, as in the code)
    entropies,        \* the pools: method -> list of scores
    pooled,           \* number of sentence pairs the phase-1 loop has finished
    null_thresh,      \* method -> threshold, <<>> before line 250
    mask_nulls,       \* the masks of the last phase-2 pass, <<>> before any
    out_f,            \* method -> the lines written: <<sent_id, matrix>>
    err,              \* <<>>, or <<exception, line>> once raised
    pc                \* position in the run

ivars == <<sim_matrix, sim, max_count, inter, new_inter, new_sim, count, ipc, result>>
gvars == <<inter_matrix, all_ents, gpc>>
mvars == <<L1_lines, L2_lines, num_test_sents, null_align, matching_methods, sims,
           original_corpora, words_tokens, sentences, sent_id, entropies, pooled,
           null_thresh, mask_nulls, out_f, err, pc>>
vars == <<ivars, gvars, mvars>>

\* ------------------------------------------------------------------ bounds
MaxVal == 1
MaxK == 1
MaxSents == 2

\* The shapes (m, n) of the matrices drawn: every shape up to 3 x 3, which
\* holds every degenerate shape class and the smallest shape past the guards.
Shapes == {<<1, 1>>, <<1, 2>>, <<2, 1>>, <<1, 3>>, <<3, 1>>, <<2, 2>>,
           <<2, 3>>, <<3, 2>>, <<3, 3>>}

\* ------------------------------------------------------------------ matrices
Min2(a, b) == IF a <= b THEN a ELSE b

Rows(M) == Len(M)

Cols(M) == Len(M[1])

MatsOf(m, n, vals) == [1..m -> [1..n -> vals]]

\* the vector <<F(1), ..., F(n)>>, every entry evaluated once
Vec(n, F(_)) == SubSeq([j \in 1..n |-> F(j)], 1, n)

\* the m x n matrix of the entries Cell(i, j), every entry evaluated once
Mat(m, n, Cell(_, _)) == Vec(m, LAMBDA i : Vec(n, LAMBDA j : Cell(i, j)))

Zeros(m, n) == Mat(m, n, LAMBDA i, j : 0)

Ones(m, n) == Mat(m, n, LAMBDA i, j : 1)

Transpose(M) == Mat(Cols(M), Rows(M), LAMBDA j, i : M[i][j])

MatAdd(A, B) == Mat(Rows(A), Cols(A), LAMBDA i, j : A[i][j] + B[i][j])

MatMul(A, B) == Mat(Rows(A), Cols(A), LAMBDA i, j : A[i][j] * B[i][j])

RECURSIVE SumSeq(_)
SumSeq(s) == IF s = <<>> THEN 0 ELSE s[1] + SumSeq(Tail(s))

Row(M, i) == M[i]

Col(M, j) == Vec(Rows(M), LAMBDA i : M[i][j])

RowSum(M, i) == SumSeq(Row(M, i))

ColSum(M, j) == SumSeq(Col(M, j))

MatTotal(M) == SumSeq(Vec(Rows(M), LAMBDA i : RowSum(M, i)))

Clip01(x) == IF x < 0 THEN 0 ELSE IF x > 1 THEN 1 ELSE x

Clip010(x) == IF x < 0 THEN 0 ELSE IF x > 10 THEN 10 ELSE x

\* numpy's argmax: the first index holding the maximum
ArgMax(s) ==
    CHOOSE j \in 1..Len(s) :
        /\ \A k \in 1..Len(s) : s[k] <= s[j]
        /\ \A k \in 1..(j - 1) : s[k] < s[j]

\* np.eye(n)[M.argmax(axis=1)]: m x n, one 1 per row
OneHotRows(M) ==
    LET am == Vec(Rows(M), LAMBDA i : ArgMax(Row(M, i)))
    IN  Mat(Rows(M), Cols(M), LAMBDA i, j : IF j = am[i] THEN 1 ELSE 0)

\* np.eye(m)[M.argmax(axis=0)].transpose(): m x n, one 1 per column
OneHotColsT(M) ==
    LET am == Vec(Cols(M), LAMBDA j : ArgMax(Col(M, j)))
    IN  Mat(Rows(M), Cols(M), LAMBDA i, j : IF i = am[j] THEN 1 ELSE 0)

\* ------------------------------------------------------------------ iter_max
\* lines 99-101, read from the matrix s the body names `sim`
Inter0(s) == MatMul(OneHotRows(s), OneHotColsT(s))

\* line 103
IterDegenerate_lt2(m, n) == Min2(m, n) < 2
IterDegenerate(m, n) == Min2(m, n) <= 2

\* line 112: 1 where row i has no accepted match, else 0
MaskX(a) ==
    LET rs == Vec(Rows(a), LAMBDA i : 1 - Clip01(RowSum(a, i)))
    IN  Mat(Rows(a), Cols(a), LAMBDA i, j : rs[i])

\* line 113: 1 where column j has no accepted match, else 0
MaskY(a) ==
    LET cs == Vec(Cols(a), LAMBDA j : 1 - Clip01(ColSum(a, j)))
    IN  Mat(Rows(a), Cols(a), LAMBDA i, j : cs[j])

\* line 116
GuardFires(a) == MatTotal(MaskX(a)) < 1 \/ MatTotal(MaskY(a)) < 1

\* lines 111, 114, 116-117, in tenths: ratio = 0.9 is 9
Mask_ratio1(a) ==
    LET mx == MaskX(a)
        my == MaskY(a)
        g == GuardFires(a)
    IN  Mat(Rows(a), Cols(a), LAMBDA i, j :
            IF g THEN 0 ELSE Clip010(10 * mx[i][j] + 10 * my[i][j]))
Mask(a) ==
    LET mx == MaskX(a)
        my == MaskY(a)
        g == GuardFires(a)
    IN  Mat(Rows(a), Cols(a), LAMBDA i, j :
            IF g THEN 0 ELSE Clip010(9 * mx[i][j] + 9 * my[i][j]))

\* lines 115, 118
MaskZeros_ones(a) == Ones(Rows(a), Cols(a))
MaskZeros(a) ==
    LET mx == MaskX(a)
        my == MaskY(a)
        g == GuardFires(a)
    IN  Mat(Rows(a), Cols(a), LAMBDA i, j :
            IF g THEN 0 ELSE 1 - ((1 - mx[i][j]) * (1 - my[i][j])))

\* line 120, in tenths
NewSim(s, a) == MatMul(s, Mask(a))

\* lines 121-123
NewInter(s, a) ==
    LET ns == NewSim(s, a)
        mz == MaskZeros(a)
    IN  MatMul(MatMul(OneHotRows(ns), mz), MatMul(OneHotColsT(ns), mz))

\* lines 108-128: the loop from (inter, new_inter, count) to the returned inter
RECURSIVE IterLoop(_, _, _, _, _)
IterLoop(s, a, na, c, K) ==
    IF c <= K
    THEN LET a2 == MatAdd(a, na)
             na2 == NewInter(s, a2)
         IN  IF MatAdd(a2, na2) = a2 THEN a2 ELSE IterLoop(s, a2, na2, c + 1, K)
    ELSE a

\* lines 97-128 as a function of the matrix s bound to `sim` and of max_count;
\* the parameter sim_matrix is not read anywhere in the body
iter_max(s, K) ==
    IF IterDegenerate(Rows(s), Cols(s))
    THEN Inter0(s)
    ELSE IterLoop(s, Inter0(s), Zeros(Rows(s), Cols(s)), 0, K)

\* ------------------------------------------------------------------ entropy scoring
\* round(1000 * ln k) for k = 1 .. 16, with ln(a * b) = ln a + ln b kept exact
LnMilli == <<0, 693, 1099, 1386, 1609, 1792, 1946, 2079,
             2198, 2302, 2398, 2485, 2565, 2639, 2708, 2772>>

\* stands for the NaN that scipy's entropy returns for a vector that sums to
\* 0; every comparison and np.minimum below treats it as numpy treats NaN
NaN == -1

XLogX(v) == IF v = 0 THEN 0 ELSE v * LnMilli[v]

\* lines 68-72: entropy of the L1-normalised vector v over ln(base), in
\* thousandths.  With T the sum of v, the entropy of v / T is
\* ln T - (sum of v_k ln v_k) / T.
NormEntropy(v, base) ==
    LET T == SumSeq(v)
    IN  IF T = 0 THEN NaN
        ELSE ((XLogX(T) - SumSeq(Vec(Len(v), LAMBDA k : XLogX(v[k])))) * 1000)
                 \div (T * LnMilli[base])

\* line 71
EntropyX(S) == Vec(Rows(S), LAMBDA i : NormEntropy(Row(S, i), Cols(S)))

\* line 72
EntropyY(S) == Vec(Cols(S), LAMBDA j : NormEntropy(Col(S, j), Rows(S)))

\* np.minimum: NaN if either is NaN
NpMinimum(a, b) == IF a = NaN \/ b = NaN THEN NaN ELSE Min2(a, b)

\* a > b of two floats: false when either is NaN
FloatGt(a, b) == a # NaN /\ b # NaN /\ a > b

\* lines 74-75 and np.minimum(mask_x, mask_y)
MinEntropy(S) ==
    LET ex == EntropyX(S)
        ey == EntropyY(S)
    IN  Mat(Rows(S), Cols(S), LAMBDA i, j : NpMinimum(ex[i], ey[j]))

\* np.nditer order: row by row
Flatten(M) ==
    LET n == Cols(M)
    IN  Vec(Rows(M) * n, LAMBDA k : M[((k - 1) \div n) + 1][((k - 1) % n) + 1])

\* line 78: the test of the list comprehension
Emitted(x) == FloatGt(x, 0)

\* lines 64-78
gather_null_aligns(S, A) ==
    IF Min2(Rows(S), Cols(S)) <= 2 THEN <<>>
    ELSE LET me == MinEntropy(S)
             ents == Mat(Rows(S), Cols(S), LAMBDA i, j :
                         IF me[i][j] = NaN THEN NaN ELSE A[i][j] * me[i][j])
         IN  SelectSeq(Flatten(ents), Emitted)

\* lines 81-94
apply_percentile_null_aligns(S, ratio) ==
    IF Min2(Rows(S), Cols(S)) <= 2 THEN Ones(Rows(S), Cols(S))
    ELSE LET me == MinEntropy(S)
         IN  Mat(Rows(S), Cols(S), LAMBDA i, j :
                 IF FloatGt(me[i][j], ratio) THEN 0 ELSE 1)

\* ------------------------------------------------------------------ inputs
\* the worked example of the specification, in tenths
ExampleS == << <<9, 1, 0>>, <<0, 2, 8>> >>

\* graded matrices past the 0 .. MaxVal grid, two of them wider than 3 x 3
GradedMats ==
    { ExampleS,
      << <<4, 1, 0>>, <<1, 2, 1>>, <<1, 1, 2>> >>,
      << <<3, 2, 1>>, <<2, 3, 1>>, <<3, 3, 2>> >>,
      << <<3, 1, 0, 0>>, <<2, 3, 1, 0>>, <<2, 2, 1, 1>> >>,
      << <<2, 2, 1>>, <<1, 3, 0>>, <<0, 1, 3>>, <<1, 1, 1>> >> }

Mats == UNION {MatsOf(sh[1], sh[2], 0..MaxVal) : sh \in Shapes} \cup GradedMats

\* the candidate alignment matrices handed to gather_null_aligns: the
\* one-hot argmax matrices, their intersection, itermax, and the two extremes
Candidates(S) ==
    { OneHotRows(S), OneHotColsT(S), Inter0(S), iter_max(S, 1),
      Ones(Rows(S), Cols(S)), Zeros(Rows(S), Cols(S)) }

\* what the module-level `sim` may hold when iter_max is called: the argument
\* itself (as at the two call sites), or another matrix
Ambients(S) == {S, Transpose(S)}

\* ------------------------------------------------------------------ iter_max, step by step
IterInit ==
    /\ sim_matrix \in Mats
    /\ sim \in Ambients(sim_matrix)
    /\ max_count \in 0..MaxK
    /\ inter = <<>>
    /\ new_inter = <<>>
    /\ new_sim = <<>>
    /\ count = 0
    /\ ipc = "call"
    /\ result = <<>>

\* lines 98-107
IterEnter ==
    /\ ipc = "call"
    /\ inter' = Inter0(sim)
    /\ IF IterDegenerate(Rows(sim), Cols(sim))
       THEN /\ ipc' = "ret"
            /\ result' = Inter0(sim)
            /\ UNCHANGED <<new_inter, count>>
       ELSE /\ ipc' = "loop"
            /\ new_inter' = Zeros(Rows(sim), Cols(sim))
            /\ count' = 0
            /\ UNCHANGED result
    /\ UNCHANGED <<sim_matrix, sim, max_count, new_sim>>
    /\ UNCHANGED <<gvars, mvars>>

\* lines 108-127: one pass of the while body
IterRound ==
    /\ ipc = "loop"
    /\ count <= max_count
    /\ LET a == MatAdd(inter, new_inter)
       IN  /\ inter' = a
           /\ new_sim' = NewSim(sim, a)
           /\ new_inter' = NewInter(sim, a)
           /\ IF MatAdd(a, NewInter(sim, a)) = a
              THEN ipc' = "break" /\ UNCHANGED count
              ELSE ipc' = "loop" /\ count' = count + 1
    /\ UNCHANGED <<sim_matrix, sim, max_count, result>>
    /\ UNCHANGED <<gvars, mvars>>

\* line 128
IterReturn ==
    /\ \/ ipc = "break"
       \/ ipc = "loop" /\ count > max_count
    /\ result' = inter
    /\ ipc' = "ret"
    /\ UNCHANGED <<sim_matrix, sim, max_count, inter, new_inter, new_sim, count>>
    /\ UNCHANGED <<gvars, mvars>>

\* ------------------------------------------------------------------ gather_null_aligns, one call
GatherInit ==
    /\ sim_matrix \in Mats
    /\ inter_matrix \in Candidates(sim_matrix)
    /\ all_ents = <<>>
    /\ gpc = "call"

\* lines 64-78
GatherNullAligns ==
    /\ gpc = "call"
    /\ all_ents' = gather_null_aligns(sim_matrix, inter_matrix)
    /\ gpc' = "ret"
    /\ UNCHANGED <<sim_matrix, inter_matrix>>
    /\ UNCHANGED <<sim, max_count, inter, new_inter, new_sim, count, ipc, result, mvars>>

\* ------------------------------------------------------------------ the base matchers of utils.bertalign
\* get_alignment_matrix: the row-wise and the column-wise one-hot argmax
get_alignment_matrix(S) == <<OneHotRows(S), OneHotColsT(S)>>

\* symmetrize: the intersection of the two
symmetrize(F, B) == MatMul(F, B)

Injections(m, n) == {f \in [1..m -> 1..n] : \A i, k \in 1..m : i # k => f[i] # f[k]}

\* from_similarity_matrix(method="max_weight_matching"): a matching of the
\* smaller side into the larger of maximal total similarity; which one among
\* several of equal weight is left open
max_weight_matching(S) ==
    LET m == Rows(S)
        n == Cols(S)
        T == IF m <= n THEN S ELSE Transpose(S)
        fs == Injections(Min2(m, n), IF m <= n THEN n ELSE m)
        W(f) == SumSeq(Vec(Rows(T), LAMBDA i : T[i][f[i]]))
        best == {f \in fs : \A g \in fs : W(g) <= W(f)}
    IN  { IF m <= n
          THEN Mat(m, n, LAMBDA i, j : IF f[i] = j THEN 1 ELSE 0)
          ELSE Mat(m, n, LAMBDA i, j : IF f[j] = i THEN 1 ELSE 0) : f \in best }

\* ------------------------------------------------------------------ the run of __main__
\* line 200
all_matching_methods ==
    [c \in {"a", "m", "i", "f", "r"} |->
        CASE c = "a" -> "inter" [] c = "m" -> "mwmf" [] c = "i" -> "itermax"
          [] c = "f" -> "fwd" [] c = "r" -> "rev"]

\* the values of --matching-methods tried; <<"m", "a", "i">> is the default
MatchingMethodArgs ==
    { <<"m", "a", "i">>, <<"a">>, <<"i">>, <<"m">>, <<"f">>, <<"a", "r">> }

\* the values of --null-align tried, in tenths; 10 is the default 1.0
NullAlignArgs == {0, 5, 10}

\* the values of --num-test-sents tried; -1 is the default
NumTestSentsArgs == {-1, 1, MaxSents}

\* the similarity matrices of the corpus: a degenerate 2 x 3 pair, a pair
\* whose rows and columns are all fully peaked, and a graded pair
CorpusMats ==
    { ExampleS,
      << <<1, 0, 0>>, <<0, 1, 0>>, <<0, 0, 1>> >>,
      << <<4, 1, 0>>, <<1, 2, 1>>, <<1, 1, 2>> >> }

RangeOf(s) == {s[k] : k \in 1..Len(s)}

\* Python's corpus[:stop] on a list of n items
SliceTo(n, stop) == IF stop < 0 THEN (IF n + stop < 0 THEN 0 ELSE n + stop) ELSE Min2(n, stop)

\* line 207
FilterOn(k) == k < 10

\* line 209: the phase-1 loop is over
Phase1Over_afterFirst(id, n) == id = n \/ id >= 1
Phase1Over(id, n) == id = n

\* the keys of methods_matrix, lines 243-246
MethodsMatrixKeys == {"forward", "backward", "inter", "mwmf", "itermax"}

\* lines 242-246, with the matching mw that from_similarity_matrix returned
methods_matrix(S, mw) ==
    [key \in MethodsMatrixKeys |->
        CASE key = "forward" -> get_alignment_matrix(S)[1]
          [] key = "backward" -> get_alignment_matrix(S)[2]
          [] key = "inter" -> symmetrize(get_alignment_matrix(S)[1], get_alignment_matrix(S)[2])
          [] key = "mwmf" -> mw
          [] key = "itermax" -> iter_max(S, 1)]

\* line 250: sorted(pool)[int(k * len(pool))]
Threshold(pool, k) == SortSeq(pool, <)[((k * Len(pool)) \div 10) + 1]

\* lines 296-303: all_mats after the masking
all_mats(S, mw, k, masks) ==
    LET raw == [ext \in {"fwd", "rev", "inter", "mwmf", "itermax"} |->
                   CASE ext = "fwd" -> get_alignment_matrix(S)[1]
                     [] ext = "rev" -> get_alignment_matrix(S)[2]
                     [] ext = "inter" -> symmetrize(get_alignment_matrix(S)[1],
                                                    get_alignment_matrix(S)[2])
                     [] ext = "mwmf" -> mw
                     [] ext = "itermax" -> iter_max(S, 1)]
    IN  [ext \in DOMAIN raw |->
            IF FilterOn(k) /\ ext \in {"inter", "mwmf", "itermax"}
            THEN MatMul(raw[ext], masks[ext])
            ELSE raw[ext]]

MainInit ==
    /\ L1_lines \in 0..MaxSents
    /\ L2_lines \in 0..MaxSents
    /\ num_test_sents \in NumTestSentsArgs
    /\ null_align \in NullAlignArgs
    /\ \E a \in MatchingMethodArgs :
           matching_methods = [k \in 1..Len(a) |-> all_matching_methods[a[k]]]
    /\ sims \in [1..MaxSents -> CorpusMats]
    /\ original_corpora = <<>>
    /\ words_tokens = 0
    /\ sentences = 0
    /\ sent_id = 0
    /\ entropies = <<>>
    /\ pooled = 0
    /\ null_thresh = <<>>
    /\ mask_nulls = <<>>
    /\ out_f = <<>>
    /\ err = <<>>
    /\ pc = "load"

\* lines 169-174
LoadCorpora ==
    /\ pc = "load"
    /\ original_corpora' = <<SliceTo(L1_lines, num_test_sents), SliceTo(L2_lines, num_test_sents)>>
    /\ sent_id' = 0
    /\ pc' = "tokenize"
    /\ UNCHANGED <<L1_lines, L2_lines, num_test_sents, null_align, matching_methods, sims,
                   words_tokens, sentences, entropies, pooled, null_thresh, mask_nulls,
                   out_f, err>>
    /\ UNCHANGED <<ivars, gvars>>

\* lines 177-180: one pass of the tokenization loop
TokenizeSent ==
    /\ pc = "tokenize"
    /\ sent_id < original_corpora[1]
    /\ IF sent_id >= original_corpora[2]
       THEN /\ err' = <<"IndexError", 179>>
            /\ pc' = "failed"
            /\ UNCHANGED <<words_tokens, sent_id>>
       ELSE /\ words_tokens' = words_tokens + 1
            /\ sent_id' = sent_id + 1
            /\ UNCHANGED <<err, pc>>
    /\ UNCHANGED <<L1_lines, L2_lines, num_test_sents, null_align, matching_methods, sims,
                   original_corpora, sentences, entropies, pooled, null_thresh, mask_nulls,
                   out_f>>
    /\ UNCHANGED <<ivars, gvars>>

\* lines 182-197
CheckLengths ==
    /\ pc = "tokenize"
    /\ sent_id = original_corpora[1]
    /\ sentences' = words_tokens
    /\ IF Min2(original_corpora[1], original_corpora[2]) # 
          (IF original_corpora[1] >= original_corpora[2] THEN original_corpora[1] ELSE original_corpora[2])
       THEN err' = <<"ValueError", 197>> /\ pc' = "failed"
       ELSE UNCHANGED err /\ pc' = "open"
    /\ UNCHANGED <<L1_lines, L2_lines, num_test_sents, null_align, matching_methods, sims,
                   original_corpora, words_tokens, sent_id, entropies, pooled, null_thresh,
                   mask_nulls, out_f>>
    /\ UNCHANGED <<ivars, gvars>>

\* lines 200-208
OpenOutputs ==
    /\ pc = "open"
    /\ out_f' = [ext \in RangeOf(matching_methods) |-> <<>>]
    /\ sent_id' = 0
    /\ IF FilterOn(null_align)
       THEN entropies' = [x \in RangeOf(matching_methods) |-> <<>>] /\ pc' = "phase1"
       ELSE UNCHANGED entropies /\ pc' = "phase2"
    /\ UNCHANGED <<L1_lines, L2_lines, num_test_sents, null_align, matching_methods, sims,
                   original_corpora, words_tokens, sentences, pooled, null_thresh,
                   mask_nulls, err>>
    /\ UNCHANGED <<ivars, gvars>>

\* the position in the list of the first method that is no key of
\* methods_matrix, Len + 1 if there is none
RECURSIVE FirstMissing(_, _)
FirstMissing(ms, k) ==
    IF k > Len(ms) THEN k
    ELSE IF ms[k] \notin MethodsMatrixKeys THEN k ELSE FirstMissing(ms, k + 1)

Position(ms, x) == CHOOSE k \in 1..Len(ms) : ms[k] = x /\ \A h \in 1..(k - 1) : ms[h] # x

\* lines 209-249: one pass of the phase-1 loop
Phase1Sent ==
    /\ pc = "phase1"
    /\ ~Phase1Over(sent_id, sentences)
    /\ \E mw \in max_weight_matching(sims[sent_id + 1]) :
         LET S == sims[sent_id + 1]
             mm == methods_matrix(S, mw)
             bad == FirstMissing(matching_methods, 1)
         IN  /\ entropies' =
                    [x \in DOMAIN entropies |->
                        IF Position(matching_methods, x) < bad
                        THEN entropies[x] \o gather_null_aligns(S, mm[x])
                        ELSE entropies[x]]
             /\ IF bad <= Len(matching_methods)
                THEN /\ err' = <<"KeyError", 249>>
                     /\ pc' = "failed"
                     /\ UNCHANGED <<sent_id, pooled>>
                ELSE /\ sent_id' = sent_id + 1
                     /\ pooled' = pooled + 1
                     /\ UNCHANGED <<err, pc>>
    /\ UNCHANGED <<L1_lines, L2_lines, num_test_sents, null_align, matching_methods, sims,
                   original_corpora, words_tokens, sentences, null_thresh, mask_nulls, out_f>>
    /\ UNCHANGED <<ivars, gvars>>

\* line 250
ComputeThresholds ==
    /\ pc = "phase1"
    /\ Phase1Over(sent_id, sentences)
    /\ IF \E x \in DOMAIN entropies : entropies[x] = <<>>
       THEN /\ err' = <<"IndexError", 250>>
            /\ pc' = "failed"
            /\ UNCHANGED <<null_thresh, sent_id>>
       ELSE /\ null_thresh' = [x \in DOMAIN entropies |-> Threshold(entropies[x], null_align)]
            /\ pc' = "phase2"
            /\ sent_id' = 0
            /\ UNCHANGED err
    /\ UNCHANGED <<L1_lines, L2_lines, num_test_sents, null_align, matching_methods, sims,
                   original_corpora, words_tokens, sentences, entropies, pooled, mask_nulls,
                   out_f>>
    /\ UNCHANGED <<ivars, gvars>>

\* lines 252-327: one pass of the output loop
Phase2Sent ==
    /\ pc = "phase2"
    /\ sent_id < sentences
    /\ \E mw \in max_weight_matching(sims[sent_id + 1]) :
         LET S == sims[sent_id + 1]
             masks == [x \in RangeOf(matching_methods) |->
                          apply_percentile_null_aligns(S, null_thresh[x])]
         IN  /\ mask_nulls' = IF FilterOn(null_align) THEN masks ELSE mask_nulls
             /\ out_f' = [ext \in DOMAIN out_f |->
                             Append(out_f[ext],
                                    <<sent_id, all_mats(S, mw, null_align, masks)[ext]>>)]
    /\ sent_id' = sent_id + 1
    /\ UNCHANGED <<L1_lines, L2_lines, num_test_sents, null_align, matching_methods, sims,
                   original_corpora, words_tokens, sentences, entropies, pooled, null_thresh,
                   err, pc>>
    /\ UNCHANGED <<ivars, gvars>>

\* lines 329-332
CloseOutputs ==
    /\ pc = "phase2"
    /\ sent_id = sentences
    /\ pc' = "done"
    /\ UNCHANGED <<L1_lines, L2_lines, num_test_sents, null_align, matching_methods, sims,
                   original_corpora, words_tokens, sentences, sent_id, entropies, pooled,
                   null_thresh, mask_nulls, out_f, err>>
    /\ UNCHANGED <<ivars, gvars>>

\* ------------------------------------------------------------------ specifications
IterIdle ==
    /\ sim = <<>> /\ max_count = 0 /\ inter = <<>> /\ new_inter = <<>>
    /\ new_sim = <<>> /\ count = 0 /\ ipc = "idle" /\ result = <<>>

GatherIdle == inter_matrix = <<>> /\ all_ents = <<>> /\ gpc = "idle"

MainIdle ==
    /\ L1_lines = 0 /\ L2_lines = 0 /\ num_test_sents = 0 /\ null_align = 10
    /\ matching_methods = <<>> /\ sims = <<>> /\ original_corpora = <<>>
    /\ words_tokens = 0 /\ sentences = 0 /\ sent_id = 0 /\ entropies = <<>>
    /\ pooled = 0 /\ null_thresh = <<>> /\ mask_nulls = <<>> /\ out_f = <<>>
    /\ err = <<>> /\ pc = "idle"

\* one call of iter_max
InitIterMax == IterInit /\ GatherIdle /\ MainIdle

NextIterMax == IterEnter \/ IterRound \/ IterReturn

SpecIterMax == InitIterMax /\ [][NextIterMax]_vars

\* one call of gather_null_aligns
InitGather == GatherInit /\ IterIdle /\ MainIdle

NextGather == GatherNullAligns

SpecGather == InitGather /\ [][NextGather]_vars

\* one run of the command line
Init == MainInit /\ sim_matrix = <<>> /\ IterIdle /\ GatherIdle

Next ==
    \/ LoadCorpora \/ TokenizeSent \/ CheckLengths \/ OpenOutputs
    \/ Phase1Sent \/ ComputeThresholds \/ Phase2Sent \/ CloseOutputs

Spec == Init /\ [][Next]_vars

\* ================================================================== properties
\* first-maximum test, stated on the entries themselves
IsFirstMax(s, j) ==
    /\ \A k \in 1..Len(s) : s[k] <= s[j]
    /\ \A k \in 1..(j - 1) : s[k] < s[j]

\* cell (i, j) is a mutual first maximum of S
MutualBest(S, i, j) == IsFirstMax(Row(S, i), j) /\ IsFirstMax(Col(S, j), i)

RowSatisfied(a, i) == \E j \in 1..Cols(a) : a[i][j] > 0

ColSatisfied(a, j) == \E i \in 1..Rows(a) : a[i][j] > 0

AllSatisfied(a) ==
    \/ \A i \in 1..Rows(a) : RowSatisfied(a, i)
    \/ \A j \in 1..Cols(a) : ColSatisfied(a, j)

Cells(M) == (1..Rows(M)) \X (1..Cols(M))

IsBinary(M) == \A c \in Cells(M) : M[c[1]][c[2]] \in {0, 1}

\* a call made as at the call sites: `sim` is the matrix passed
AsAtCallSite == sim = sim_matrix

\* C1: the matrix iter_max returns is a function of its parameters sim_matrix
\* and max_count alone, whatever the module-level `sim` holds at the call.
\* Since `sim` may hold sim_matrix itself, that function can only be the
\* matching computed from sim_matrix.
C1_ResultFromParameterOnly ==
    ipc = "ret" => result = iter_max(sim_matrix, max_count)

\* C5: on a matrix with min(m, n) <= 2, called as at the call sites, iter_max
\* returns the round-0 intersection for every round budget: cell (i, j) is 1
\* iff it is a mutual first maximum; [[1]] on a 1 x 1 matrix, the cells (0,0)
\* and (1,2) on the worked example.
C5_DegenerateReturnsIntersection ==
    (ipc = "ret" /\ AsAtCallSite /\ Min2(Rows(sim_matrix), Cols(sim_matrix)) <= 2) =>
        /\ Rows(result) = Rows(sim_matrix)
        /\ Cols(result) = Cols(sim_matrix)
        /\ \A c \in Cells(sim_matrix) :
               result[c[1]][c[2]] = IF MutualBest(sim_matrix, c[1], c[2]) THEN 1 ELSE 0
        /\ (Rows(sim_matrix) = 1 /\ Cols(sim_matrix) = 1) => result = << <<1>> >>
        /\ sim_matrix = ExampleS => result = << <<1, 0, 0>>, <<0, 0, 1>> >>

C5_Witness ==
    /\ ipc = "ret" /\ AsAtCallSite /\ max_count >= 1
    /\ sim_matrix = ExampleS
    /\ result = << <<1, 0, 0>>, <<0, 0, 1>> >>

\* a refinement round has run, on the accumulator now in `inter`
RoundRan == new_sim # <<>>

\* C9 as claimed: in a refinement round in which the guard of line 116 does
\* not fire, the damped similarity is S * (1 - clip(0.9 rowSatisfied +
\* 0.9 colSatisfied, 0, 1)): factor 1, 0.1, 0 for no, one, both satisfied.
\* (new_sim is kept in tenths.)
C9_DampedByOneTenth ==
    (RoundRan /\ AsAtCallSite /\ ~AllSatisfied(inter)) =>
        \A c \in Cells(sim_matrix) :
            LET r == IF RowSatisfied(inter, c[1]) THEN 1 ELSE 0
                k == IF ColSatisfied(inter, c[2]) THEN 1 ELSE 0
            IN  new_sim[c[1]][c[2]] = sim_matrix[c[1]][c[2]] * (10 - Clip010(9 * r + 9 * k))

\* C9 amended: the factor is 1 where neither the row nor the column holds an
\* accepted match, 0.9 where exactly one does, 0 where both do; and 0
\* everywhere in a round in which every row or every column is satisfied.
C9_DampedByNineTenths ==
    (RoundRan /\ AsAtCallSite) =>
        \A c \in Cells(sim_matrix) :
            LET r == RowSatisfied(inter, c[1])
                k == ColSatisfied(inter, c[2])
                tenths == IF AllSatisfied(inter) \/ (r /\ k) THEN 0
                          ELSE IF r \/ k THEN 9 ELSE 10
            IN  new_sim[c[1]][c[2]] = sim_matrix[c[1]][c[2]] * tenths

\* a round in which a cell of positive similarity has exactly one of its row
\* and column satisfied
C9_Witness ==
    /\ RoundRan /\ AsAtCallSite /\ ~AllSatisfied(inter)
    /\ \E c \in Cells(sim_matrix) :
           /\ sim_matrix[c[1]][c[2]] > 0
           /\ RowSatisfied(inter, c[1]) # ColSatisfied(inter, c[2])
           /\ new_sim[c[1]][c[2]] = 9 * sim_matrix[c[1]][c[2]]

C10_State ==
    (AsAtCallSite /\ ipc # "call") =>
        /\ IsBinary(inter)
        /\ \A c \in Cells(sim_matrix) :
               MutualBest(sim_matrix, c[1], c[2]) => inter[c[1]][c[2]] = 1
        /\ (ipc # "ret" \/ RoundRan) =>
               /\ IsBinary(new_inter)
               /\ \A c \in Cells(sim_matrix) :
                      new_inter[c[1]][c[2]] = 1 =>
                          ~(RowSatisfied(inter, c[1]) /\ ColSatisfied(inter, c[2]))
        /\ ipc = "ret" => result = inter

C10_Step ==
    (AsAtCallSite /\ ipc # "call") =>
        \A c \in Cells(sim_matrix) : inter[c[1]][c[2]] = 1 => inter'[c[1]][c[2]] = 1

\* C10: called as at the call sites, after round 0 and after every refinement
\* round the accumulator is a {0,1} matrix holding every mutual first maximum
\* (the round-0 intersection), a round's new matches never lie in a cell whose
\* row and column are both satisfied, a cell once set stays set, and the
\* accumulator is what is returned.
C10_BinaryAndGrowing == [](C10_State) /\ [][C10_Step]_vars

\* a refinement round added a match to the round-0 intersection
C10_Witness ==
    /\ ipc = "ret" /\ AsAtCallSite
    /\ \E c \in Cells(sim_matrix) :
           result[c[1]][c[2]] = 1 /\ ~MutualBest(sim_matrix, c[1], c[2])

\* the score of cell (i, j): min(rowEntropy[i], colEntropy[j])
Score(S, i, j) == NpMinimum(NormEntropy(Row(S, i), Cols(S)), NormEntropy(Col(S, j), Rows(S)))

\* no row and no column of S is all zero, so that every entropy is a number
NoZeroLine(S) ==
    /\ \A i \in 1..Rows(S) : RowSum(S, i) > 0
    /\ \A j \in 1..Cols(S) : ColSum(S, j) > 0

\* the scores of the cells with A > 0, row by row
RECURSIVE ScoresFrom(_, _, _)
ScoresFrom(S, A, k) ==
    IF k > Rows(S) * Cols(S) THEN <<>>
    ELSE LET i == ((k - 1) \div Cols(S)) + 1
             j == ((k - 1) % Cols(S)) + 1
         IN  (IF A[i][j] > 0 THEN <<Score(S, i, j)>> ELSE <<>>) \o ScoresFrom(S, A, k + 1)

\* C3: gather_null_aligns(S, A) emits nothing when min(m, n) <= 2 and otherwise
\* exactly one score min(rowEntropy[i], colEntropy[j]) per cell with
\* A[i, j] > 0, also where that score is 0.  (Stated for matrices without an
\* all-zero row or column, where every entropy is a number.)
C3_OneScorePerAcceptedCell ==
    (gpc = "ret" /\ NoZeroLine(sim_matrix)) =>
        IF Min2(Rows(sim_matrix), Cols(sim_matrix)) <= 2
        THEN all_ents = <<>>
        ELSE all_ents = ScoresFrom(sim_matrix, inter_matrix, 1)

\* ------------------------------------------------------------------ the run
\* the phase-1 pass over the corpus is over
Phase1PassOver == pc \in {"phase2", "done"} \/ (pc = "failed" /\ err[2] = 250)

\* C2: with filtering requested, a method whose pool is empty once the
\* phase-1 pass is over does not make the threshold computation raise: the
\* run goes on to phase 2, and that method's written matrices are its
\* unfiltered candidates.
C2_EmptyPoolNotFatal ==
    (FilterOn(null_align) /\ Phase1PassOver) =>
        \A x \in DOMAIN entropies :
            entropies[x] = <<>> =>
                /\ pc # "failed"
                /\ \A k \in 1..Len(out_f[x]) :
                       LET S == sims[out_f[x][k][1] + 1]
                       IN  out_f[x][k][2] \in
                               { all_mats(S, mw, 10, <<>>)[x] : mw \in max_weight_matching(S) }

\* C4: with filtering requested, whatever methods are selected, the run does
\* not fail on the selection, and every matrix written for a pair with
\* min(m, n) > 2 is 0 in every cell whose score exceeds the method's threshold.
C4_EveryMethodPooledAndMasked ==
    FilterOn(null_align) =>
        /\ ~(pc = "failed" /\ err[1] = "KeyError")
        /\ \A x \in DOMAIN out_f :
               \A k \in 1..Len(out_f[x]) :
                   LET S == sims[out_f[x][k][1] + 1]
                       A == out_f[x][k][2]
                   IN  Min2(Rows(S), Cols(S)) > 2 =>
                           \A c \in Cells(S) :
                               FloatGt(Score(S, c[1], c[2]), null_thresh[x]) =>
                                   A[c[1]][c[2]] = 0

C6_State ==
    (FilterOn(null_align) /\ mask_nulls # <<>>) =>
        /\ pooled = sentences
        /\ sentences = Min2(original_corpora[1], original_corpora[2])
        /\ DOMAIN null_thresh = RangeOf(matching_methods)
        /\ \A x \in DOMAIN null_thresh :
               null_thresh[x] = Threshold(entropies[x], null_align)

C6_Step ==
    (null_thresh # <<>>) => (null_thresh' = null_thresh /\ entropies' = entropies)

\* C6: with filtering requested, a mask is built only once the phase-1 loop
\* has pooled every sentence pair and every method's threshold is computed
\* from its full pool; from then on neither a threshold nor a pool changes.
C6_BarrierBetweenPhases == [](C6_State) /\ [][C6_Step]_vars

\* phase 2 has built masks for the second sentence pair of a filtered run
C6_Witness ==
    /\ FilterOn(null_align) /\ mask_nulls # <<>>
    /\ pc = "phase2" /\ sent_id = 2
    /\ \E x \in DOMAIN mask_nulls : \E c \in Cells(mask_nulls[x]) :
           mask_nulls[x][c[1]][c[2]] = 0

\* some per-sentence processing has begun
ProcessingBegun ==
    \/ words_tokens > 0
    \/ pooled > 0
    \/ pc \in {"open", "phase1", "phase2", "done"}

\* C7: when the two files hold different numbers of sentences, no
\* per-sentence processing ever begins and the only error the run ends with
\* is the ValueError 'Cannot load parallel corpus.' of line 197.
C7_MismatchAbortsBeforeProcessing ==
    (L1_lines # L2_lines) =>
        /\ ~ProcessingBegun
        /\ err # <<>> => err = <<"ValueError", 197>>

\* C8: with --num-test-sents at its default -1, a run over a parallel corpus
\* of N pairs that ends writes, to each output file, N lines tagged 0 .. N-1.
C8_DefaultProcessesAllSentences ==
    (pc = "done" /\ num_test_sents = -1 /\ L1_lines = L2_lines) =>
        \A ext \in DOMAIN out_f :
            /\ Len(out_f[ext]) = L1_lines
            /\ \A k \in 1..Len(out_f[ext]) : out_f[ext][k][1] = k - 1

====
